---- MODULE Spec2Model ----
(***************************************************************************)
(* Model of the Intel HEX library littlehawk93/ihex.                       *)
(*                                                                         *)
(* The first part models the streaming FileWriter of fileWriter.go: its    *)
(* fields, the io.Writer it writes records to, and the handlers Write and  *)
(* Close with the internal writeDataRecord (specifications Spec and        *)
(* SpecHigh).  The second part models the record codec: checksum, encoding *)
(* of a record as a line, decoding of a line, and the validation of a      *)
(* record kind against a file type (SpecCodec).  The third part models the *)
(* record containers of the repository with their cursors and the decoding *)
(* of a stream of lines into a container (SpecFile).                       *)
(*                                                                         *)
(* recordCount is an int64 in the source and is compared with 2^32, which  *)
(* does not fit the model checker's integers.  Counters of records and of  *)
(* bytes are therefore kept as two digits in base 65536:                   *)
(*     [hi |-> h, lo |-> l]  stands for  h * 65536 + l,  0 <= l < 65536.   *)
(***************************************************************************)
EXTENDS Integers, Sequences, FiniteSets, TLC

\* ------------------------------------------------------------------ bounds
\* largest recordSize a writer is constructed with
MaxRecordSize == 2
\* longest byte slice handed to one Write call
MaxWriteLen == 2
\* the callers of a writer hand it the bytes of at most MaxRecords records,
\* counted from the record count the writer starts the run with
MaxRecords == 4
\* the caller of an open writer stops writing once MaxFailed records were
\* lost to a failing sink
MaxFailed == 1
\* byte values the callers write
ByteValues == {0, 1}

\* ------------------------------------------------------- program constants
I8HEX == 8
I16HEX == 16
I32HEX == 32
FileTypes == {I8HEX, I16HEX, I32HEX}

RecordData == 0
RecordEOF == 1
RecordExtSegment == 2
RecordStartSegment == 3
RecordExtLinear == 4
RecordStartLinear == 5

recordMaximumDataSize == 255
recordEOFChecksum == 255

\* ------------------------------------------------ base-65536 wide counters

Wide(h, l) == [hi |-> h, lo |-> l]
WZero == Wide(0, 0)
\* w + n for a small natural n
WAdd(w, n) == Wide(w.hi + ((w.lo + n) \div 65536), (w.lo + n) % 65536)
\* w * n for a small natural n
WScale(w, n) == Wide(w.hi * n + ((w.lo * n) \div 65536), (w.lo * n) % 65536)
WGe(a, b) == a.hi > b.hi \/ (a.hi = b.hi /\ a.lo >= b.lo)
WLt(a, b) == ~WGe(a, b)
\* the value of a wide counter known to be small
ToInt(w) == w.hi * 65536 + w.lo

writerMaximumI8HEXRecords == Wide(1, 0)
writerMaximumI16HEXRecords == Wide(16, 0)
writerMaximumI32HEXRecords == Wide(65536, 0)

\* ------------------------------------------------------------------ state
VARIABLES
    recordSize,    \* FileWriter.recordSize
    recordCount,   \* FileWriter.recordCount (wide)
    buffer,        \* FileWriter.buffer, a sequence of recordSize bytes
    bufferIndex,   \* FileWriter.bufferIndex, 0-based
    fileType,      \* FileWriter.fileType
    closed,        \* FileWriter.closed
    writer,        \* FileWriter.writer: the sink and what it has received
    panicked,      \* the goroutine running the writer died in a run-time panic
    input,         \* the bytes handed to Write, while the sink keeps a log
    totalIn,       \* bytes handed to the Write calls the writer accepted (wide)
    last,          \* the last call made on the writer and the error it returned
    start          \* the record count the writer starts the run with (wide)

\* the variables of the FileWriter part
fwVars == <<recordSize, recordCount, buffer, bufferIndex, fileType, closed,
            writer, panicked, input, totalIn, last, start>>

VARIABLES
    codec,         \* the record codec: its input, the line and the results
    file,          \* a record container: its kind, file type, records, cursor
    trav           \* the last call on the container and the traversal so far

\* the variables of the codec part and of the container part
cdVars == <<codec>>
hfVars == <<file, trav>>

vars == <<fwVars, cdVars, hfVars>>

\* the values of the variables of a part that a specification does not run
FileWriterIdle ==
    /\ recordSize = 1
    /\ recordCount = [hi |-> 0, lo |-> 0]
    /\ buffer = <<0>>
    /\ bufferIndex = 0
    /\ fileType = 8
    /\ closed = FALSE
    /\ writer = [broken |-> FALSE]
    /\ panicked = FALSE
    /\ input = <<>>
    /\ totalIn = [hi |-> 0, lo |-> 0]
    /\ last = [op |-> "none"]
    /\ start = [hi |-> 0, lo |-> 0]
CodecIdle == codec = [pc |-> "idle"]
FileIdle == file = [impl |-> "none"] /\ trav = [op |-> "none"]

\* the FileWriter struct: the values its fields take
TypeOK ==
    /\ recordSize \in 1..recordMaximumDataSize
    /\ recordCount.hi \in Nat /\ recordCount.lo \in 0..65535
    /\ Len(buffer) = recordSize
    /\ bufferIndex \in 0..(recordSize - 1)
    /\ fileType \in {8, 16, 32}
    /\ closed \in BOOLEAN

\* ---------------------------------------------------------------- records
NoRecord == [Type |-> -1, AddressOffset |-> 0, Data |-> <<>>, checksum |-> 0]

RECURSIVE SumBytes(_)
SumBytes(d) ==
    IF d = <<>> THEN 0
    ELSE IF Len(d) = 1 THEN d[1]
    ELSE SumBytes(SubSeq(d, 1, Len(d) \div 2))
           + SumBytes(SubSeq(d, Len(d) \div 2 + 1, Len(d)))

\* the one's complement of the sum, without the final + 1
getChecksumOnesComplement(t, d) ==
    IF t = RecordEOF THEN recordEOFChecksum
    ELSE 255 - (SumBytes(d) % 256)

\* Record.getChecksum: byte((^sum) & 0xFF) + 1, in 8 bits
getChecksum(t, d) ==
    IF t = RecordEOF THEN recordEOFChecksum
    ELSE ((255 - (SumBytes(d) % 256)) + 1) % 256

\* the fields Record.write encodes into one line
Rec(t, a, d) ==
    [Type |-> t, AddressOffset |-> a, Data |-> d, checksum |-> getChecksum(t, d)]

ExtTypes == {RecordExtSegment, RecordExtLinear}

\* ------------------------------------------------------------------- sink
\* The sink keeps, of the lines written to it: how many there are of each
\* kind, the last one, the kind of the one before it and the last
\* address-extension record.
NewSink(isCloser) ==
    [ nData    |-> WZero,
      nExt     |-> 0,
      nEOF     |-> 0,
      lastRec  |-> NoRecord,
      prevType |-> -1,
      lastExt  |-> NoRecord,
      broken   |-> FALSE,
      isCloser |-> isCloser,
      closes   |-> 0,
      logging  |-> FALSE,
      payload  |-> <<>> ]

\* Record.write: w.Write(buf.Bytes()) of the encoded line
RecordWrite(w, r) ==
    IF w.broken
    THEN [writer |-> w, err |-> "sink"]
    ELSE [writer |-> [w EXCEPT
                        !.nData = IF r.Type = RecordData THEN WAdd(@, 1) ELSE @,
                        !.nExt = IF r.Type \in ExtTypes THEN @ + 1 ELSE @,
                        !.nEOF = IF r.Type = RecordEOF THEN @ + 1 ELSE @,
                        !.prevType = w.lastRec.Type,
                        !.lastRec = r,
                        !.lastExt = IF r.Type \in ExtTypes THEN r ELSE @,
                        !.payload = IF w.logging /\ r.Type = RecordData
                                    THEN @ \o r.Data ELSE @],
          err |-> "nil"]

\* ------------------------------------------------------- writeDataRecord
recordLimit(ft) ==
    IF ft = I8HEX THEN writerMaximumI8HEXRecords
    ELSE IF ft = I16HEX THEN writerMaximumI16HEXRecords
    ELSE writerMaximumI32HEXRecords

recordLimitReachedLate(ft, rc) ==
    \/ ft = I8HEX /\ WGe(rc, WAdd(writerMaximumI8HEXRecords, 1))
    \/ ft = I16HEX /\ WGe(rc, WAdd(writerMaximumI16HEXRecords, 1))
    \/ ft = I32HEX /\ WGe(rc, WAdd(writerMaximumI32HEXRecords, 1))

recordLimitReached(ft, rc) ==
    \/ ft = I8HEX /\ WGe(rc, writerMaximumI8HEXRecords)
    \/ ft = I16HEX /\ WGe(rc, writerMaximumI16HEXRecords)
    \/ ft = I32HEX /\ WGe(rc, writerMaximumI32HEXRecords)

\* uint16(me.recordCount & 0x00000000000000FF)
address(rc) == rc.lo % 256

\* (me.recordCount & 0x000000000000FF00) >> 16, as uint16
linearExtension(rc) == ((((rc.lo \div 256) % 256) * 256) \div 65536) % 65536

\* uint16(me.recordCount / 16):  (hi * 65536 + lo) / 16 mod 65536
segmentExtension(rc) == (((rc.hi % 16) * 4096) + (rc.lo \div 16)) % 65536

addressExtensionAnyType(ft, rc) ==
    IF address(rc) = 0 /\ WGe(rc, Wide(0, 1))
    THEN IF ft = I32HEX THEN linearExtension(rc)
         ELSE segmentExtension(rc)
    ELSE 0

addressExtension(ft, rc) ==
    IF address(rc) = 0 /\ WGe(rc, Wide(0, 1))
    THEN IF ft = I32HEX THEN linearExtension(rc)
         ELSE IF ft = I16HEX THEN segmentExtension(rc)
         ELSE 0
    ELSE 0

\* b := make([]byte, 0)
extensionBuffer == <<>>

\* binary.BigEndian.PutUint16(b, v): starts with the bounds check b[1]
PutUint16(b, v) ==
    IF Len(b) < 2 THEN [panic |-> TRUE, b |-> b]
    ELSE [panic |-> FALSE,
          b |-> [b EXCEPT ![1] = v \div 256, ![2] = v % 256]]

extensionType(ft) == IF ft = I16HEX THEN RecordExtSegment ELSE RecordExtLinear

\* the result of writeDataRecord(data) on a writer with record count rc and
\* sink w: the new record count and sink, and the error returned ("panic"
\* when the call does not return)
writeDataRecord(ft, rc, w, data) ==
    IF recordLimitReached(ft, rc)
    THEN [recordCount |-> rc, writer |-> w, err |-> "overflow"]
    ELSE
      LET ext == addressExtension(ft, rc)
          put == PutUint16(extensionBuffer, ext)
          e   == IF ext > 0 /\ ~put.panic
                 THEN RecordWrite(w, Rec(extensionType(ft), 0, put.b))
                 ELSE [writer |-> w, err |-> "nil"]
          d   == RecordWrite(e.writer, Rec(RecordData, address(rc), data))
      IN  IF ext > 0 /\ put.panic
          THEN [recordCount |-> rc, writer |-> w, err |-> "panic"]
          ELSE IF e.err # "nil"
          THEN [recordCount |-> rc, writer |-> e.writer, err |-> e.err]
          ELSE [recordCount |-> WAdd(rc, 1), writer |-> d.writer, err |-> d.err]

\* ------------------------------------------------------------------ Write
WriteRejectedNever == FALSE

\* if me.closed { return 0, errors.New(...) }
WriteRejected == closed

\* the loop of Write over p[i..], on the writer fields in st
RECURSIVE WriteLoop(_, _, _)
WriteLoop(st, p, i) ==
    IF i > Len(p) THEN st
    ELSE
      LET buf == [st.buffer EXCEPT ![st.bufferIndex + 1] = p[i]]
          idx == st.bufferIndex + 1
      IN  IF idx >= recordSize
          THEN LET r == writeDataRecord(fileType, st.recordCount, st.writer, buf)
                   st1 == [buffer |-> buf, bufferIndex |-> 0,
                           recordCount |-> r.recordCount,
                           writer |-> r.writer, err |-> r.err]
               IN  IF r.err # "nil" THEN st1 ELSE WriteLoop(st1, p, i + 1)
          ELSE WriteLoop([st EXCEPT !.buffer = buf, !.bufferIndex = idx], p, i + 1)

\* an open writer is handed bytes while it is inside its modelled run
CanGrow ==
    /\ WLt(recordCount, WAdd(writer.nData, MaxFailed))
    /\ WLt(totalIn, WScale(WAdd(start, MaxRecords), recordSize))

\* a sink that keeps a log is handed MaxInputLen bytes at most
MaxInputLen == 4
LogRoom(p) == writer.logging => Len(input) + Len(p) <= MaxInputLen

Write(p) ==
    /\ ~panicked
    /\ UNCHANGED <<cdVars, hfVars>>
    /\ IF WriteRejected
       THEN /\ last' = [op |-> "Write", err |-> "closed", wasClosed |-> closed]
            /\ UNCHANGED <<recordSize, recordCount, buffer, bufferIndex,
                           fileType, closed, writer, panicked, input,
                           totalIn, start>>
       ELSE LET st == WriteLoop([buffer |-> buffer, bufferIndex |-> bufferIndex,
                                 recordCount |-> recordCount, writer |-> writer,
                                 err |-> "nil"], p, 1)
            IN  /\ CanGrow
                /\ LogRoom(p)
                /\ input' = IF writer.logging THEN input \o p ELSE input
                /\ buffer' = st.buffer
                /\ bufferIndex' = st.bufferIndex
                /\ recordCount' = st.recordCount
                /\ writer' = st.writer
                /\ panicked' = (st.err = "panic")
                /\ totalIn' = WAdd(totalIn, Len(p))
                /\ last' = [op |-> "Write", err |-> st.err, wasClosed |-> closed]
                /\ UNCHANGED <<recordSize, fileType, closed, start>>

\* ------------------------------------------------------------------ Close
CloseIsNoopNever == FALSE

\* a Close that marks the writer closed only when it returns no error
closedOnSuccess(err) == err = "nil"

\* me.closed = true: set before the flush, whatever Close returns
closedByClose(err) == TRUE

\* if me.closed { return nil }
CloseIsNoop == closed

\* for i := me.bufferIndex + 1; i < len(me.buffer); i++ { me.buffer[i] = 0 }
ZeroPad(buf, idx) ==
    [j \in 1..Len(buf) |-> IF j - 1 >= idx + 1 THEN 0 ELSE buf[j]]

\* if c, ok := me.writer.(io.Closer); ok { return c.Close() }; return nil
CloseSink(w) ==
    IF w.isCloser
    THEN [writer |-> [w EXCEPT !.closes = @ + 1],
          err |-> IF w.broken THEN "sink" ELSE "nil"]
    ELSE [writer |-> w, err |-> "nil"]

Close ==
    /\ ~panicked
    /\ UNCHANGED <<cdVars, hfVars>>
    /\ IF CloseIsNoop
       THEN /\ last' = [op |-> "Close", err |-> "nil", wasClosed |-> closed]
            /\ UNCHANGED <<recordSize, recordCount, buffer, bufferIndex,
                           fileType, closed, writer, panicked, input,
                           totalIn, start>>
       ELSE
         LET flush == bufferIndex > 0
             buf == IF flush THEN ZeroPad(buffer, bufferIndex) ELSE buffer
             r == IF flush
                  THEN writeDataRecord(fileType, recordCount, writer, buf)
                  ELSE [recordCount |-> recordCount, writer |-> writer,
                        err |-> "nil"]
             c == IF r.err = "nil" THEN CloseSink(r.writer)
                  ELSE [writer |-> r.writer, err |-> r.err]
         IN  /\ closed' = closedByClose(c.err)
             /\ buffer' = buf
             /\ recordCount' = r.recordCount
             /\ writer' = c.writer
             /\ panicked' = (c.err = "panic")
             /\ last' = [op |-> "Close", err |-> c.err, wasClosed |-> closed]
             /\ UNCHANGED <<recordSize, bufferIndex, fileType, input, totalIn,
                            start>>

\* ------------------------------------------------------------ environment
\* the sink starts to fail: every later Write and Close on it returns an error
SinkBreak ==
    /\ ~panicked
    /\ UNCHANGED <<cdVars, hfVars>>
    /\ ~writer.broken
    /\ writer' = [writer EXCEPT !.broken = TRUE]
    /\ UNCHANGED <<recordSize, recordCount, buffer, bufferIndex, fileType,
                   closed, panicked, input, totalIn, last, start>>

\* ------------------------------------------------------------------- Init
ByteSeqs(n) == [1..n -> ByteValues]
Inputs == UNION {ByteSeqs(n) : n \in 0..MaxWriteLen}

\* NewFileWriterType(w, k, ft)
NewFileWriterType(isCloser, k, ft) ==
    /\ k <= recordMaximumDataSize /\ k > 0
    /\ recordSize = k
    /\ recordCount = WZero
    /\ buffer = [j \in 1..k |-> 0]
    /\ bufferIndex = 0
    /\ fileType = ft
    /\ writer = NewSink(isCloser)
    /\ closed = FALSE
    /\ panicked = FALSE
    /\ input = <<>>
    /\ totalIn = WZero
    /\ last = [op |-> "new", err |-> "nil", wasClosed |-> FALSE]
    /\ start = WZero

Init ==
    /\ \E isCloser \in BOOLEAN, k \in 1..MaxRecordSize, ft \in FileTypes :
          NewFileWriterType(isCloser, k, ft)
    /\ CodecIdle
    /\ FileIdle

Next ==
    \/ \E p \in Inputs : Write(p)
    \/ Close
    \/ SinkBreak

Spec == Init /\ [][Next]_vars

\* --------------------------------------------- writers late in their run
\* Record counts at which the runs of SpecHigh start: just below 256 records
\* (where the address byte of writeDataRecord returns to 0), just below
\* 65536 records (the I8HEX limit and the first 16-bit rollover) and just
\* below 2^32 records (the I32HEX limit).  Each is a state the writer is in
\* after that many full records were written to a sink that did not fail;
\* an I16HEX writer does not get past 256 records (see writeDataRecord).
HighLead == 2

HighStarts ==
    { [ft |-> ft, rc |-> Wide(0, 256 - HighLead)] : ft \in FileTypes }
    \cup { [ft |-> I8HEX,  rc |-> Wide(0, 65536 - HighLead)],
           [ft |-> I32HEX, rc |-> Wide(0, 65536 - HighLead)],
           [ft |-> I32HEX, rc |-> Wide(65535, 65536 - HighLead)] }

\* the state of a writer constructed by NewFileWriterType(isCloser, k, ft)
\* after Write calls that supplied rc full records of bytes, the last of
\* them d, to a sink that did not fail
AfterRecords(isCloser, k, ft, rc, d) ==
    /\ recordSize = k
    /\ recordCount = rc
    /\ buffer = d
    /\ bufferIndex = 0
    /\ fileType = ft
    /\ writer = [NewSink(isCloser) EXCEPT
                    !.nData = rc,
                    !.lastRec = Rec(RecordData, (rc.lo - 1) % 256, d),
                    !.prevType = RecordData]
    /\ closed = FALSE
    /\ panicked = FALSE
    /\ input = <<>>
    /\ totalIn = WScale(rc, k)
    /\ last = [op |-> "Write", err |-> "nil", wasClosed |-> FALSE]
    /\ start = rc

InitHigh ==
    /\ \E isCloser \in BOOLEAN, k \in 1..MaxRecordSize, s \in HighStarts :
          \E d \in ByteSeqs(k) : AfterRecords(isCloser, k, s.ft, s.rc, d)
    /\ CodecIdle
    /\ FileIdle

SpecHigh == InitHigh /\ [][Next]_vars

\* ------------------------------------------- writers on a sink with a log
\* The sink keeps the data of the data records written to it, and input
\* the bytes handed to Write, both from the start of the run: a new writer,
\* or an I16HEX writer after 256 - HighLead full records.
LoggingStarts ==
    { [ft |-> ft, rc |-> WZero] : ft \in FileTypes }
    \cup { [ft |-> I16HEX, rc |-> Wide(0, 256 - HighLead)] }

WithLog(w) == [w EXCEPT !.logging = TRUE]

InitPayload ==
    /\ \E isCloser \in BOOLEAN, k \in 1..MaxRecordSize, s \in LoggingStarts :
          /\ recordSize = k
          /\ recordCount = s.rc
          /\ bufferIndex = 0
          /\ fileType = s.ft
          /\ closed = FALSE
          /\ panicked = FALSE
          /\ input = <<>>
          /\ totalIn = WScale(s.rc, k)
          /\ start = s.rc
          /\ IF s.rc = WZero
             THEN /\ buffer = [j \in 1..k |-> 0]
                  /\ writer = WithLog(NewSink(isCloser))
                  /\ last = [op |-> "new", err |-> "nil", wasClosed |-> FALSE]
             ELSE \E d \in ByteSeqs(k) :
                  /\ buffer = d
                  /\ writer = WithLog([NewSink(isCloser) EXCEPT
                                  !.nData = s.rc,
                                  !.lastRec =
                                      Rec(RecordData, (s.rc.lo - 1) % 256, d),
                                  !.prevType = RecordData])
                  /\ last = [op |-> "Write", err |-> "nil", wasClosed |-> FALSE]
    /\ CodecIdle
    /\ FileIdle

SpecPayload == InitPayload /\ [][Next]_vars

\* ================================================================= claims
\* the calls a step of the writer can be: a step that leaves the sink's
\* broken flag alone is a call of the writer (or stutters)
WriteStep == last'.op = "Write" /\ writer'.broken = writer.broken
CloseStep == last'.op = "Close" /\ writer'.broken = writer.broken

\* n = ceil(total / k), on wide counters:  total <= n * k < total + k
IsCeilDiv(n, total, k) ==
    /\ WGe(WScale(n, k), total)
    /\ WLt(WScale(n, k), WAdd(total, k))

\* C1: after Close, a writer with record size k whose sink never failed and
\* that was handed N bytes in all, N within the variant's record limit, has
\* written exactly ceil(N / k) data records to the sink.
C1_DataRecordCount ==
    ( /\ closed
      /\ ~writer.broken
      /\ WGe(WScale(recordLimit(fileType), recordSize), totalIn) )
    => IsCeilDiv(writer.nData, totalIn, recordSize)

\* C2: when Close has returned success on a writer whose sink never failed,
\* the sink holds exactly one EndOfFile record (empty data, address 0,
\* checksum 0xFF) and it is the last record.
C2_EndOfFileWritten ==
    (closed /\ last.op = "Close" /\ last.err = "nil" /\ ~writer.broken)
    => /\ writer.nEOF = 1
       /\ writer.lastRec = Rec(RecordEOF, 0, <<>>)
       /\ writer.lastRec.checksum = 255

\* C3: the first Close of a writer holding m buffered bytes, 0 < m < k,
\* that flushes them writes a data record of k bytes: the m buffered bytes
\* followed by k - m zero bytes.
C3_ZeroPadded ==
    [][ ( /\ ~closed /\ closed'
          /\ 0 < bufferIndex /\ bufferIndex < recordSize
          /\ writer'.nData # writer.nData )
        => /\ writer'.lastRec.Type = RecordData
           /\ writer'.lastRec.Data =
                [j \in 1..recordSize |->
                    IF j <= bufferIndex THEN buffer[j] ELSE 0] ]_vars

\* C4: a Write call on a closed writer returns the closed-writer error,
\* writes nothing to the sink and leaves the buffer, the buffer index and
\* the record counter unchanged.
C4_WriteAfterClose ==
    [][ (closed /\ WriteStep)
        => /\ last'.err = "closed"
           /\ writer' = writer
           /\ buffer' = buffer
           /\ bufferIndex' = bufferIndex
           /\ recordCount' = recordCount ]_vars

C4_Witness ==
    /\ last.op = "Write" /\ last.wasClosed /\ last.err = "closed"
    /\ bufferIndex > 0

\* C5: a Close call on a closed writer returns success, writes no record to
\* the sink and does not close the sink again.
C5_CloseIdempotent ==
    [][ (closed /\ CloseStep)
        => /\ last'.err = "nil"
           /\ writer' = writer
           /\ closed' ]_vars

C5_Witness ==
    /\ last.op = "Close" /\ last.wasClosed /\ last.err = "nil"
    /\ writer.isCloser /\ writer.closes = 1
    /\ bufferIndex > 0

\* C6: a data record, when written, carries as its address the number of
\* data records written before it, modulo 65536.
C6_AddressLow16 ==
    [][ writer'.nData # writer.nData
        => /\ writer'.lastRec.Type = RecordData
           /\ writer'.lastRec.AddressOffset = (writer'.nData.lo + 65535) % 65536
      ]_vars

\* the index (wide) of the data record written last
LastIndexIsRollover == writer.nData.lo = 1 /\ writer.nData.hi >= 1

\* C7: on a Segmented or Linear writer, the data record written last is
\* immediately preceded by an address-extension record of the variant's
\* type exactly when its index is a positive multiple of 65536.
C7_ExtensionAtRollover ==
    (fileType \in {I16HEX, I32HEX} /\ writer.lastRec.Type = RecordData)
    => (writer.prevType = extensionType(fileType) <=> LastIndexIsRollover)

\* C8: a Narrow writer never writes an address-extension record, and never
\* reaches the code that builds one.
C8_NarrowNoExtension ==
    fileType = I8HEX
    => /\ writer.nExt = 0
       /\ writer.lastExt = NoRecord
       /\ writer.lastRec.Type \notin ExtTypes
       /\ writer.prevType \notin ExtTypes
       /\ ~panicked

C8_Witness ==
    /\ fileType = I8HEX
    /\ writer.nData = Wide(0, 257)
    /\ closed

\* the two bytes, big-endian, of a 16-bit value
BigEndian16(v) == <<v \div 256, v % 256>>

\* the record counter (wide) when the data record written last was emitted
LastIndex ==
    IF writer.nData.lo = 0
    THEN Wide(writer.nData.hi - 1, 65535)
    ELSE Wide(writer.nData.hi, writer.nData.lo - 1)

\* C9: building an address-extension record succeeds, and every one written
\* has address 0 and a payload of exactly two bytes, big-endian: counter >> 16
\* for Linear, counter / 16 for Segmented.
C9_ExtensionPayload ==
    /\ ~panicked
    /\ writer.lastExt # NoRecord
       => /\ writer.lastExt.AddressOffset = 0
          /\ Len(writer.lastExt.Data) = 2
    /\ (writer.lastRec.Type = RecordData /\ writer.prevType \in ExtTypes)
       => writer.lastExt.Data =
            IF fileType = I32HEX
            THEN BigEndian16(LastIndex.hi % 65536)
            ELSE BigEndian16(((LastIndex.hi % 16) * 4096
                              + (LastIndex.lo \div 16)) % 65536)

\* a call that has a full record to emit: a Write that fills the buffer, or
\* the first Close with buffered bytes
EmitAttempt ==
    \/ /\ ~closed /\ WriteStep
       /\ WGe(totalIn', WAdd(totalIn, recordSize - bufferIndex))
    \/ /\ ~closed /\ closed' /\ bufferIndex > 0

\* C10: a data record is written only while fewer data records than the
\* variant's maximum have been written; with the maximum written, a call
\* that has one more record to emit returns the overflow error and writes
\* nothing to the sink.
C10_RecordLimit ==
    [][ /\ writer'.nData # writer.nData
           => /\ WLt(writer.nData, recordLimit(fileType))
              /\ WGe(recordLimit(fileType), writer'.nData)
        /\ (WGe(writer.nData, recordLimit(fileType)) /\ EmitAttempt)
           => /\ last'.err = "overflow"
              /\ writer' = writer ]_vars

C10_Witness ==
    /\ fileType = I32HEX
    /\ writer.nData = writerMaximumI32HEXRecords
    /\ last.err = "overflow"

\* the sink fails while a first Close has something to hand to it: the
\* buffer to flush, or the sink to close
CloseMeetsFailure ==
    /\ ~closed /\ CloseStep
    /\ writer.broken
    /\ bufferIndex > 0 \/ writer.isCloser

\* C24: when the flush of the final data record or the closing of the sink
\* fails during the first Close, Close returns the error and the writer is
\* closed all the same: it stays closed, every later Write returns the
\* closed-writer error and every later Close returns success, and neither
\* touches the sink.
C24_FailedCloseCloses ==
    [][ /\ (~closed /\ CloseStep) => closed'
        /\ (CloseMeetsFailure /\ ~panicked') => last'.err \in {"sink", "overflow"}
        /\ closed => closed'
        /\ (closed /\ WriteStep) => (last'.err = "closed" /\ writer' = writer)
        /\ (closed /\ CloseStep) => (last'.err = "nil" /\ writer' = writer)
      ]_vars

\* a first Close whose flush met the failing sink returned the error and
\* left the writer closed
C24_Witness ==
    /\ last.op = "Close" /\ ~last.wasClosed /\ last.err = "sink"
    /\ bufferIndex > 0
    /\ writer.broken
    /\ closed

\* C25: in every reachable state the record counter of the writer equals
\* the number of data records written to the sink so far; it grows by one
\* with each data record written, is left alone by an address-extension
\* record, and never decreases.
C25_CounterIsRecords ==
    /\ recordCount = writer.nData
    /\ WGe(recordCount, start)

\* the longest prefix of s whose length is a multiple of k
FullRecordsOf(s, k) == SubSeq(s, 1, (Len(s) \div k) * k)

\* C26: with a sink that never fails, the data of the data records written
\* by the writer so far, one after the other in the order they were
\* written, is the longest prefix of the bytes handed to Write so far whose
\* length is a multiple of the record size: no byte is lost, written twice
\* or out of its place.
C26_PayloadIsInputPrefix ==
    (writer.logging /\ ~writer.broken /\ ~closed)
        => writer.payload = FullRecordsOf(input, recordSize)

(***************************************************************************)
(* The record codec.  Characters are their byte codes: a line is a         *)
(* sequence of numbers in 0..255.                                          *)
(***************************************************************************)
\* ----------------------------------------------------------------- bounds
MaxDataLen == 2                 \* every data sequence up to this length
CodecBytes == {0, 1, 128, 255}  \* the bytes of the short data sequences
LongLens == {127, 128, 255}     \* the lengths of the long data sequences
LongFills == {1, 255}           \* the byte a long data sequence repeats
Addresses == {0, 4660, 65535}   \* 0x0000, 0x1234, 0xFFFF
UnknownTypes == {6, 255}        \* record kinds outside the six known ones

\* ------------------------------------------------------- ihex.go constants
maxRecordLen == 521
recordStartCode == 58
recordStartChar == 58           \* ':' of record.go
NewLine == 10                   \* "\n"

RecordTypes == {RecordData, RecordEOF, RecordExtSegment, RecordStartSegment,
                RecordExtLinear, RecordStartLinear}

\* ------------------------------------------------------------- formatting
\* the digit of fmt's %X, of hex.Encode (lower case) and strings.ToUpper
UpperDigit(n) == IF n < 10 THEN 48 + n ELSE 55 + n
LowerDigit(n) == IF n < 10 THEN 48 + n ELSE 87 + n
ToUpper(c) == IF c >= 97 /\ c <= 122 THEN c - 32 ELSE c

RECURSIVE HexDigits(_)
HexDigits(n) ==
    IF n < 16 THEN <<UpperDigit(n)>>
    ELSE HexDigits(n \div 16) \o <<UpperDigit(n % 16)>>

\* fmt.Sprintf("%0<width>X", n): at least width digits, padded with '0'
SprintfX(width, n) ==
    LET ds == HexDigits(n)
    IN IF Len(ds) >= width THEN ds
       ELSE [i \in 1..(width - Len(ds)) |-> 48] \o ds

\* hex.Encode(dst, src): two lower-case digits per byte
hexEncode(d) ==
    [i \in 1..(2 * Len(d)) |->
        IF i % 2 = 1 THEN LowerDigit(d[(i + 1) \div 2] \div 16)
        ELSE LowerDigit(d[i \div 2] % 16)]

StringsToUpper(str) == [i \in 1..Len(str) |-> ToUpper(str[i])]

\* ---------------------------------------------------------------- encoding
\* Record.write of record.go: the calls of w.Write it makes, in order
RecordWriteLine(r) ==
    LET buf == <<recordStartChar>> \o SprintfX(2, Len(r.Data))
                 \o SprintfX(4, r.AddressOffset) \o SprintfX(2, r.Type)
        hexBytes == hexEncode(r.Data)
    IN <<buf \o StringsToUpper(hexBytes)
             \o SprintfX(2, getChecksum(r.Type, r.Data)) \o <<NewLine>>>>

\* generateChecksum of ihex.go
generateChecksum(data, recordType) ==
    IF recordType = RecordEOF THEN 255
    ELSE ((255 - (SumBytes(data) % 256)) + 1) % 256

\* Record.writeNoErr of ihex.go: bytes.Buffer.WriteString returns a nil error
writeNoErr(b, str) ==
    IF b.err # "nil" THEN b ELSE [buff |-> b.buff \o str, err |-> "nil"]

\* Record.write of ihex.go: the buffer it builds and the calls of
\* writer.Write it makes, in order
draftWrite(r) ==
    LET b0 == [buff |-> <<58>>, err |-> "nil"]
        b1 == writeNoErr(b0, SprintfX(2, Len(r.Data)))
        b2 == writeNoErr(b1, SprintfX(4, r.AddressOffset))
        b3 == writeNoErr(b2, SprintfX(2, r.Type))
        b4 == writeNoErr(b3, StringsToUpper(hexEncode(r.Data)))
        b5 == writeNoErr(b4, SprintfX(2, generateChecksum(r.Data, r.Type)))
        b6 == writeNoErr(b5, <<NewLine>>)
    IN [buff |-> b6.buff,
        writes |-> IF b6.err # "nil" THEN <<b6.buff>> ELSE <<>>]

\* ----------------------------------------------------------------- parsing
\* the value of a hexadecimal digit, -1 for any other character
hexVal(c) ==
    IF c >= 48 /\ c <= 57 THEN c - 48
    ELSE IF c >= 97 /\ c <= 102 THEN c - 87
    ELSE IF c >= 65 /\ c <= 70 THEN c - 55
    ELSE -1

RECURSIVE hexNumber(_)
hexNumber(str) ==
    IF str = <<>> THEN 0
    ELSE 16 * hexNumber(SubSeq(str, 1, Len(str) - 1)) + hexVal(str[Len(str)])

Pow2(n) == IF n = 8 THEN 256 ELSE 65536

\* strconv.ParseUint(str, 16, bitSize) on at most four characters
ParseUint(str, bitSize) ==
    IF str = <<>> \/ \E i \in 1..Len(str) : hexVal(str[i]) = -1
    THEN [err |-> "syntax", val |-> 0]
    ELSE IF hexNumber(str) >= Pow2(bitSize)
    THEN [err |-> "range", val |-> Pow2(bitSize) - 1]
    ELSE [err |-> "nil", val |-> hexNumber(str)]

\* strconv.ParseInt(str, 16, 8): an optional sign, then the digits; the
\* result is a signed 8-bit number
ParseInt8(str) ==
    LET signed == str # <<>> /\ str[1] \in {43, 45}
        neg == signed /\ str[1] = 45
        un == ParseUint(IF signed THEN Tail(str) ELSE str, 8)
    IN IF un.err = "syntax" THEN [err |-> "syntax", val |-> 0]
       ELSE IF ~neg /\ un.val >= 128 THEN [err |-> "range", val |-> 127]
       ELSE IF neg /\ un.val > 128 THEN [err |-> "range", val |-> -128]
       ELSE [err |-> "nil", val |-> IF neg THEN -un.val ELSE un.val]

\* Go's integer division, which truncates toward zero
GoDiv(a, b) == IF a >= 0 THEN a \div b ELSE -((-a) \div b)

\* hex.Decode that drops a last character without its pair
hexDecodeLenient(src) ==
    LET n == Len(src) \div 2
        bad == {i \in 1..(2 * n) : hexVal(src[i]) = -1}
    IN IF bad # {} THEN [err |-> "invalid byte", n |-> 0, bytes |-> <<>>]
       ELSE [err |-> "nil", n |-> n,
             bytes |-> [i \in 1..n |->
                          16 * hexVal(src[2 * i - 1]) + hexVal(src[2 * i])]]

\* hex.Decode(dst, src): the bytes and the error
hexDecode(src) ==
    LET n == Len(src) \div 2
        bad == {i \in 1..(2 * n) : hexVal(src[i]) = -1}
    IN IF bad # {} THEN [err |-> "invalid byte", n |-> 0, bytes |-> <<>>]
       ELSE IF Len(src) % 2 = 1
       THEN [err |-> IF hexVal(src[Len(src)]) = -1 THEN "invalid byte"
                     ELSE "odd length",
             n |-> n, bytes |-> <<>>]
       ELSE [err |-> "nil", n |-> n,
             bytes |-> [i \in 1..n |->
                          16 * hexVal(src[2 * i - 1]) + hexVal(src[2 * i])]]

NoResult(e) == [err |-> e, Type |-> -1, AddressOffset |-> 0, Data |-> <<>>]

\* the run-time panics of a read: bytes[0] of an empty line, a slice
\* expression with low > high or high > cap, make with a negative length
PanicIndex == "panic: index out of range"
PanicSlice == "panic: slice bounds out of range"
PanicMake == "panic: makeslice: len out of range"
Panics == {PanicIndex, PanicSlice, PanicMake}

\* Record.read of ihex.go (strict = FALSE) and readRecord of the earlier
\* I8HEX reader (strict = TRUE), on a line without its line terminator.
\* spare is what the array of the line holds after the line, up to its
\* capacity: a slice expression may reach into it.
readBytes(bytes, spare, strict) ==
    LET bytesLen == Len(bytes)
        array == bytes \o spare
        byteCount == ParseInt8(SubSeq(array, 2, 3))
        actualByteCount == GoDiv(bytesLen - 11, 2)
        addr == ParseUint(SubSeq(array, 4, 7), 16)
        recordType == ParseUint(SubSeq(array, 8, 9), 8)
        decoded == hexDecode(SubSeq(bytes, 10, bytesLen - 2))
        recordChecksum == ParseUint(SubSeq(bytes, bytesLen - 1, bytesLen), 8)
    IN IF bytesLen > maxRecordLen THEN NoResult("record size")
       ELSE IF bytesLen = 0 THEN NoResult(PanicIndex)
       ELSE IF bytes[1] # recordStartCode THEN NoResult("start code")
       ELSE IF Len(array) < 3 THEN NoResult(PanicSlice)
       ELSE IF byteCount.err # "nil" THEN NoResult("byte count")
       ELSE IF byteCount.val > 255 THEN NoResult("invalid byte count")
       ELSE IF byteCount.val # actualByteCount
       THEN NoResult("byte count mismatch")
       ELSE IF byteCount.val < 0 THEN NoResult(PanicMake)
       ELSE IF Len(array) < 7 THEN NoResult(PanicSlice)
       ELSE IF addr.err # "nil" THEN NoResult("address")
       ELSE IF Len(array) < 9 THEN NoResult(PanicSlice)
       ELSE IF recordType.err # "nil" THEN NoResult("record type")
       ELSE IF strict /\ recordType.val \notin RecordTypes
       THEN NoResult("invalid record type")
       ELSE IF bytesLen - 2 < 9 THEN NoResult(PanicSlice)
       ELSE IF decoded.err # "nil" THEN NoResult("record data")
       ELSE IF decoded.n # byteCount.val THEN NoResult("record data count")
       ELSE IF recordChecksum.err # "nil" THEN NoResult("checksum")
       ELSE IF recordChecksum.val
                 # generateChecksum(decoded.bytes, recordType.val)
       THEN NoResult("checksum mismatch")
       ELSE [err |-> "nil", Type |-> recordType.val,
             AddressOffset |-> addr.val, Data |-> decoded.bytes]

\* the read of a line whose array ends with the line
readLine(bytes, strict) == readBytes(bytes, <<>>, strict)

\* bufio.Scanner with ScanLines, bufio.Reader.ReadLine: the line without
\* its terminator
ScanLine(text) ==
    IF text # <<>> /\ text[Len(text)] = NewLine
    THEN SubSeq(text, 1, Len(text) - 1) ELSE text

\* -------------------------------------------------------------- validation
\* Record.validate of record.go
validate(r, ft) ==
    \/ r.Type = RecordData
    \/ r.Type = RecordEOF
    \/ (r.Type = RecordExtSegment \/ r.Type = RecordStartSegment)
         /\ ft = I16HEX
    \/ (r.Type = RecordExtLinear \/ r.Type = RecordStartLinear)
         /\ ft = I32HEX

\* validateHEXRecord of ihex.go, for a record that is not nil
validateHEXRecord(r, hexType) ==
    LET isDataOrEOF == r.Type = RecordData \/ r.Type = RecordEOF
    IN IF hexType = I8HEX THEN isDataOrEOF
       ELSE IF hexType = I16HEX
       THEN isDataOrEOF \/ r.Type = RecordExtSegment
                        \/ r.Type = RecordExtSegment
       ELSE IF hexType = I32HEX
       THEN isDataOrEOF \/ r.Type = RecordExtLinear
                        \/ r.Type = RecordStartLinear
       ELSE FALSE

\* ------------------------------------------------------------ codec, Init
Record(t, a, d) == [Type |-> t, AddressOffset |-> a, Data |-> d]

CodecData ==
    UNION {[1..n -> CodecBytes] : n \in 0..MaxDataLen}
      \cup {[i \in 1..n |-> b] : n \in LongLens, b \in LongFills}

CodecRecords ==
    {Record(t, a, d) : t \in RecordTypes \cup UnknownTypes,
                       a \in Addresses, d \in CodecData}

\* the lines given to the readers as they are: every line up to MaxRawLen
\* characters of ':', '-', '0' and '4'
MaxRawLen == 3
RawChars == {58, 45, 48, 52}
RawLines == UNION {[1..n -> RawChars] : n \in 0..MaxRawLen}

\* the text of a line in a stream
TextOf(line) == line \o <<NewLine>>

InitCodec ==
    /\ FileWriterIdle
    /\ FileIdle
    /\ \/ \E r \in CodecRecords : codec = [pc |-> "input", rec |-> r]
       \/ \E l \in RawLines :
             codec = [pc |-> "raw", rec |-> Record(-1, 0, <<>>),
                      sink |-> <<TextOf(l)>>]

\* ---------------------------------------------------------- codec actions
\* the checksum of the record, by getChecksum and by generateChecksum
Checksum ==
    /\ codec.pc = "input"
    /\ codec' = [pc |-> "checksum", rec |-> codec.rec,
                 sum |-> getChecksum(codec.rec.Type, codec.rec.Data),
                 draftSum |->
                     generateChecksum(codec.rec.Data, codec.rec.Type)]
    /\ UNCHANGED <<fwVars, hfVars>>

\* the record is validated against a file type, by validate and by
\* validateHEXRecord
Validate ==
    /\ codec.pc = "input"
    /\ \E ft \in FileTypes :
          codec' = [pc |-> "validate", rec |-> codec.rec, ft |-> ft,
                    valid |-> validate(codec.rec, ft),
                    draftValid |-> validateHEXRecord(codec.rec, ft)]
    /\ UNCHANGED <<fwVars, hfVars>>

\* the record is written to an empty sink, by the write of record.go and,
\* to another empty sink, by the write of ihex.go
Encode ==
    /\ codec.pc = "input"
    /\ codec' = [pc |-> "encode", rec |-> codec.rec,
                 sink |-> RecordWriteLine(codec.rec),
                 draftBuff |-> draftWrite(codec.rec).buff,
                 draftSink |-> draftWrite(codec.rec).writes]
    /\ UNCHANGED <<fwVars, hfVars>>

\* the line written by Encode is scanned and read, by the read of ihex.go
\* and by readRecord
Decode ==
    /\ codec.pc = "encode"
    /\ codec.sink # <<>>
    /\ Len(ScanLine(codec.sink[1])) >= 11
    /\ codec' = [pc |-> "decode", rec |-> codec.rec,
                 line |-> ScanLine(codec.sink[1]),
                 read |-> readLine(ScanLine(codec.sink[1]), FALSE),
                 readRecord |-> readLine(ScanLine(codec.sink[1]), TRUE)]
    /\ UNCHANGED <<fwVars, hfVars>>

\* the edits of a line: a character removed, put in or replaced, and the
\* first n characters kept
DeleteAt(l, i) == SubSeq(l, 1, i - 1) \o SubSeq(l, i + 1, Len(l))
InsertAt(l, i, c) == SubSeq(l, 1, i - 1) \o <<c>> \o SubSeq(l, i, Len(l))
ReplaceAt(l, i, c) == [l EXCEPT ![i] = c]
Prefix(l, n) == SubSeq(l, 1, n)

\* the characters an edit puts in: '1' and 'G'
TamperChars == {49, 71}

\* the records whose line is edited
Tamperable(r) ==
    /\ r.AddressOffset = 0
    /\ r.Type \in {RecordData, RecordEOF}
    /\ Len(r.Data) <= MaxDataLen

\* the line written by Encode reaches the reader with one character
\* removed, put in or replaced
Tamper ==
    /\ codec.pc = "encode"
    /\ Tamperable(codec.rec)
    /\ LET l == ScanLine(codec.sink[1])
       IN \E t \in {DeleteAt(l, i) : i \in 1..Len(l)}
                  \cup {InsertAt(l, i, c) :
                          i \in 1..(Len(l) + 1), c \in TamperChars}
                  \cup {ReplaceAt(l, i, c) :
                          i \in 1..Len(l), c \in TamperChars} :
             /\ t # l
             /\ codec' = [pc |-> "tamper", rec |-> codec.rec,
                          sink |-> <<TextOf(t)>>]
    /\ UNCHANGED <<fwVars, hfVars>>

\* the line written by Encode reaches the reader cut short
Truncate ==
    /\ codec.pc = "encode"
    /\ Len(codec.rec.Data) <= MaxDataLen
    /\ LET l == ScanLine(codec.sink[1])
       IN \E n \in 0..(Len(l) - 1) :
             codec' = [pc |-> "truncate", rec |-> codec.rec,
                       sink |-> <<TextOf(Prefix(l, n))>>]
    /\ UNCHANGED <<fwVars, hfVars>>

\* what the array of a token of bufio.Scanner holds after the line:
\* nothing, the line terminator and the next line, or zeroes
ScannerSpares == {<<>>, <<10, 58>>, <<0, 0>>}

\* what the array that append allocates for the line in readRecord holds
\* after it: zeroes up to a capacity of 8 for a line of 1 to 8 characters
AppendSpare(line) ==
    IF Len(line) >= 1 /\ Len(line) <= 8
    THEN [i \in 1..(8 - Len(line)) |-> 0] ELSE <<>>

\* an edited, shortened or given line is scanned and read, by the read of
\* ihex.go and by readRecord
DecodeLine ==
    /\ codec.pc \in {"tamper", "truncate", "raw"}
    /\ \E spare \in ScannerSpares :
          codec' = [pc |-> "decodeLine", rec |-> codec.rec,
                    from |-> codec.pc,
                    line |-> ScanLine(codec.sink[1]),
                    read |-> readBytes(ScanLine(codec.sink[1]), spare, FALSE),
                    readRecord |->
                        readBytes(ScanLine(codec.sink[1]),
                                  AppendSpare(ScanLine(codec.sink[1])), TRUE)]
    /\ UNCHANGED <<fwVars, hfVars>>

NextCodec ==
    Checksum \/ Validate \/ Encode \/ Decode \/ Tamper \/ Truncate
      \/ DecodeLine

SpecCodec == InitCodec /\ [][NextCodec]_vars

SameRecord(res, r) ==
    /\ res.err = "nil"
    /\ res.Type = r.Type
    /\ res.AddressOffset = r.AddressOffset
    /\ res.Data = r.Data

\* C12: round trip: for every record with one of the six known kinds, data
\* length 0..255 and address 0..0xFFFF, decoding the line produced by
\* encoding it succeeds and yields a record with the same kind, address
\* offset and data.
C12_RoundTrip ==
    (codec.pc = "decode" /\ codec.rec.Type \in RecordTypes)
        => SameRecord(codec.read, codec.rec)

\* the line format of a record: "0123456789ABCDEF" and the fields in order
HexChars == <<48, 49, 50, 51, 52, 53, 54, 55, 56, 57, 65, 66, 67, 68, 69, 70>>
TwoDigits(n) == <<HexChars[(n \div 16) + 1], HexChars[(n % 16) + 1]>>
FourDigits(n) == TwoDigits(n \div 256) \o TwoDigits(n % 256)
LineChecksum(r) ==
    IF r.Type = RecordEOF THEN 255
    ELSE CHOOSE c \in 0..255 : (SumBytes(r.Data) + c) % 256 = 0
LineOf(r) ==
    <<58>> \o TwoDigits(Len(r.Data)) \o FourDigits(r.AddressOffset)
           \o TwoDigits(r.Type)
           \o [i \in 1..(2 * Len(r.Data)) |->
                 TwoDigits(r.Data[(i + 1) \div 2])[2 - (i % 2)]]
           \o TwoDigits(LineChecksum(r)) \o <<10>>
\* ":00000001FF\n"
LineEOF == <<58, 48, 48, 48, 48, 48, 48, 48, 49, 70, 70, 10>>

\* C13: encoding a record writes to the sink exactly one line: ':', two hex
\* digits of len(data), four of the address offset, two of the kind, two
\* upper-case hex digits per data byte, two of the checksum and '\n', of
\* 12 + 2 * len(data) characters in all; the EndOfFile record with address
\* 0 and no data is written as ":00000001FF\n".  It holds of the write of
\* record.go and of the write of ihex.go.
C13_EncodedLine ==
    codec.pc = "encode" =>
        /\ codec.sink = <<LineOf(codec.rec)>>
        /\ codec.draftSink = <<LineOf(codec.rec)>>
        /\ Len(LineOf(codec.rec)) = 12 + 2 * Len(codec.rec.Data)
        /\ codec.rec = Record(RecordEOF, 0, <<>>) =>
             codec.sink = <<LineEOF>> /\ codec.draftSink = <<LineEOF>>

\* C14: validation of a record kind against a file type is true exactly
\* for Data and EndOfFile with any of the three file types, for
\* ExtendedSegmentAddress and StartSegmentAddress with I16HEX and for
\* ExtendedLinearAddress and StartLinearAddress with I32HEX, and false for
\* every other combination, unknown kinds included.  It holds of validate
\* and of validateHEXRecord.
LegalKind(t, ft) ==
    \/ t \in {0, 1} /\ ft \in {8, 16, 32}
    \/ t \in {2, 3} /\ ft = 16
    \/ t \in {4, 5} /\ ft = 32

C14_ValidationTable ==
    codec.pc = "validate" =>
        /\ codec.valid = LegalKind(codec.rec.Type, codec.ft)
        /\ codec.draftValid = LegalKind(codec.rec.Type, codec.ft)

(***************************************************************************)
(* The record containers: I8HEXFile, I16HEXFile and I32HEXFile (impl       *)
(* "HEXFile", which differ in GetType only), HexFile of ihex.go (impl      *)
(* "HexFile") and the earlier I8HEX reader (impl "I8HEX").  recordIndex is *)
(* the 0-based index of the code; records is a sequence from 1.            *)
(***************************************************************************)
\* ----------------------------------------------------------------- bounds
MaxFileLen == 2        \* the records a container holds at most
MaxBatch == 2          \* the records of one AddRecords call at most
MaxStreamLen == 2      \* the lines of a decoded stream at most
MaxExtraReads == 2     \* the reads past the last record
NoFileType == 0        \* HexFile.Type as NewHexFile leaves it

\* the records given to the containers
FileRecords ==
    { Record(RecordData, 0, <<1>>),
      Record(RecordEOF, 0, <<>>),
      Record(RecordStartSegment, 0, <<0, 1>>),
      Record(RecordExtLinear, 0, <<0, 1>>) }

\* Record{}, the zero value
EmptyRecord == Record(0, 0, <<>>)
\* a nil *Record
NilRecord == [Type |-> -1, AddressOffset |-> 0, Data |-> <<>>]

\* ------------------------------------------------------------------ errors
NoError == [type |-> "nil"]
\* &InvalidRecordTypeError{InvaildFileType, InvalidRecordType}
InvalidRecordTypeError(ft, t) ==
    [type |-> "InvalidRecordTypeError",
     InvalidRecordType |-> t, InvaildFileType |-> ft]
\* errors.New(msg), fmt.Errorf(msg)
ErrorString(msg) == [type |-> "errorString", msg |-> msg]
\* the line number left as it is after a record
NextLineStuck(lineNumber) == lineNumber

\* lineNumber++, after a record was appended
NextLine(lineNumber) == lineNumber + 1

\* fmt.Errorf("Error on line %d: '%s'", lineNumber, cause)
LineError(lineNumber, cause) ==
    [type |-> "errorString", msg |-> "Error on line",
     line |-> lineNumber, cause |-> cause]

\* ----------------------------------------------------- traversal history
\* from: how the traversal at hand started ("new" by a constructor, "Reset"
\* by a Reset); at: where the cursor was then; seen: the record and the
\* flag of each read since; reads: how many there were; lastOk: the flag of
\* the last one; clean: no record was appended since the first of them,
\* and from, at and seen are kept only as long as that is so
History(from, at) ==
    [from |-> from, at |-> at, seen |-> <<>>, reads |-> 0, lastOk |-> FALSE,
     clean |-> TRUE]

NewHistory == History("new", "before start")

\* the state of the cursor: before the first read, on a record, or past
\* the last record
CursorState(h) ==
    IF h.reads = 0 THEN "before start"
    ELSE IF h.lastOk THEN "positioned" ELSE "exhausted"

AfterRead(h, rec, ok) ==
    IF ~h.clean THEN [h EXCEPT !.reads = @ + 1, !.lastOk = ok]
    ELSE [h EXCEPT !.seen = Append(@, [rec |-> rec, ok |-> ok]),
                   !.reads = @ + 1, !.lastOk = ok]

AfterAppend(h) ==
    IF h.reads = 0 THEN h
    ELSE [h EXCEPT !.from = "none", !.at = "none", !.seen = <<>>,
                   !.clean = FALSE]

CanRead == trav.hist.reads < Len(file.records) + MaxExtraReads

\* the call that was made last: its name, its argument or returned record,
\* its flag and error, the records before it and the stream it decoded
Call(op, rec, ok, err, before, stream, hist) ==
    [op |-> op, rec |-> rec, ok |-> ok, err |-> err, before |-> before,
     stream |-> stream, hist |-> hist]

\* ---------------------------------------- I8HEXFile, I16HEXFile, I32HEXFile
\* NewI8HEXFile, NewI16HEXFile, NewI32HEXFile
NewHEXFile(ft) ==
    [impl |-> "HEXFile", Type |-> ft, records |-> <<>>, recordIndex |-> -1]

\* ReadNext without recordIndex++
ReadNextNoAdvance(f) ==
    IF f.recordIndex + 1 >= Len(f.records)
    THEN [file |-> f, rec |-> EmptyRecord, ok |-> FALSE]
    ELSE [file |-> f, rec |-> f.records[f.recordIndex + 2], ok |-> TRUE]

\* ReadNext: the container, the record and the flag it returns
ReadNextOf(f) ==
    IF f.recordIndex + 1 >= Len(f.records)
    THEN [file |-> f, rec |-> EmptyRecord, ok |-> FALSE]
    ELSE [file |-> [f EXCEPT !.recordIndex = @ + 1],
          rec |-> f.records[f.recordIndex + 2], ok |-> TRUE]

ReadNext ==
    /\ file.impl = "HEXFile"
    /\ CanRead
    /\ file' = ReadNextOf(file).file
    /\ trav' = Call("ReadNext", ReadNextOf(file).rec, ReadNextOf(file).ok,
                    NoError, file.records, <<>>,
                    AfterRead(trav.hist, ReadNextOf(file).rec,
                              ReadNextOf(file).ok))
    /\ UNCHANGED <<fwVars, cdVars>>

\* Reset with the cursor left where it is
ResetKeepsCursor(f) == f

\* Reset
ResetFile(f) == [f EXCEPT !.recordIndex = -1]

Reset ==
    /\ file.impl = "HEXFile"
    /\ file' = ResetFile(file)
    /\ trav' = Call("Reset", EmptyRecord, FALSE, NoError, file.records, <<>>,
                    History("Reset", CursorState(trav.hist)))
    /\ UNCHANGED <<fwVars, cdVars>>

\* an Add that puts the cursor back before the first record
AddToRewinds(f, r) ==
    IF ~validate(r, f.Type)
    THEN [file |-> f, err |-> InvalidRecordTypeError(f.Type, r.Type)]
    ELSE [file |-> [f EXCEPT !.records = Append(@, r), !.recordIndex = -1],
          err |-> NoError]

\* Add: the container and the error it returns
AddTo(f, r) ==
    IF ~validate(r, f.Type)
    THEN [file |-> f, err |-> InvalidRecordTypeError(f.Type, r.Type)]
    ELSE [file |-> [f EXCEPT !.records = Append(@, r)], err |-> NoError]

Add(r) ==
    /\ file.impl = "HEXFile"
    /\ Len(AddTo(file, r).file.records) <= MaxFileLen
    /\ file' = AddTo(file, r).file
    /\ trav' = Call("Add", r, FALSE, AddTo(file, r).err, file.records, <<>>,
                    IF AddTo(file, r).err = NoError
                    THEN AfterAppend(trav.hist) ELSE trav.hist)
    /\ UNCHANGED <<fwVars, cdVars>>

\* AddRecords: Add of each record in turn, up to the first error
RECURSIVE AddRecordsLoop(_, _)
AddRecordsLoop(f, rs) ==
    IF rs = <<>> THEN [file |-> f, err |-> NoError]
    ELSE IF AddTo(f, Head(rs)).err # NoError THEN AddTo(f, Head(rs))
    ELSE AddRecordsLoop(AddTo(f, Head(rs)).file, Tail(rs))

AddRecords(rs) ==
    /\ file.impl = "HEXFile"
    /\ Len(AddRecordsLoop(file, rs).file.records) <= MaxFileLen
    /\ file' = AddRecordsLoop(file, rs).file
    /\ trav' = Call("AddRecords", EmptyRecord, FALSE,
                    AddRecordsLoop(file, rs).err, file.records, <<>>,
                    IF file'.records # file.records
                    THEN AfterAppend(trav.hist) ELSE trav.hist)
    /\ UNCHANGED <<fwVars, cdVars>>

\* ----------------------------------------------------------------- streams
\* the line of a record as the write of record.go writes it, scanned
LineOfRecord(r) == ScanLine(RecordWriteLine(r)[1])

\* ":0100000001FF", the line of a Data record with a wrong checksum
CorruptLine == <<58, 48, 49, 48, 48, 48, 48, 48, 48, 48, 49, 70, 70>>

\* the lines of the streams: one of each record, and the corrupt one
StreamLines == {LineOfRecord(r) : r \in FileRecords} \cup {CorruptLine}

Streams == UNION {[1..n -> StreamLines] : n \in 0..MaxStreamLen}

\* what Record.read (strict = FALSE) and readRecord (strict = TRUE) return
\* on each line of the streams, computed once
LineResults ==
    {[line |-> l, strict |-> b, res |-> readLine(l, b)] :
        l \in StreamLines, b \in BOOLEAN}

ReadLineResult(l, strict) ==
    (CHOOSE p \in LineResults : p.line = l /\ p.strict = strict).res

\* ------------------------------------------------------ HexFile of ihex.go
\* NewHexFile, and the Type the caller gives the file
NewHexFile(ft) ==
    [impl |-> "HexFile", Type |-> ft, records |-> <<>>, recordIndex |-> -1]

\* Record(): the record at the cursor, nil outside the records
CurrentRecord(f) ==
    IF f.recordIndex < 0 \/ f.recordIndex >= Len(f.records) THEN NilRecord
    ELSE f.records[f.recordIndex + 1]

\* Next(), and the Record() of the caller that follows it: the container,
\* the record and the flag
NextOf(f) ==
    [file |-> [f EXCEPT !.recordIndex = @ + 1],
     rec |-> CurrentRecord([f EXCEPT !.recordIndex = @ + 1]),
     ok |-> f.recordIndex + 1 < Len(f.records)]

HexFileNext ==
    /\ file.impl = "HexFile"
    /\ CanRead
    /\ file' = NextOf(file).file
    /\ trav' = Call("Next", NextOf(file).rec, NextOf(file).ok, NoError,
                    file.records, <<>>,
                    AfterRead(trav.hist, NextOf(file).rec, NextOf(file).ok))
    /\ UNCHANGED <<fwVars, cdVars>>

\* HexFile.Reset
HexFileReset ==
    /\ file.impl = "HexFile"
    /\ file' = [file EXCEPT !.recordIndex = -1]
    /\ trav' = Call("Reset", EmptyRecord, FALSE, NoError, file.records, <<>>,
                    History("Reset", CursorState(trav.hist)))
    /\ UNCHANGED <<fwVars, cdVars>>

\* HexFile.AddRecord: the container and the error it returns
AddRecordTo(f, r) ==
    IF ~validateHEXRecord(r, f.Type)
    THEN [file |-> f,
          err |-> ErrorString("Invalid record type for this HEX type")]
    ELSE IF Len(f.records) > 0 /\ f.records[Len(f.records)].Type = RecordEOF
    THEN [file |-> f,
          err |-> ErrorString(
                    "Cannot add records after EOF record has been added")]
    ELSE [file |-> [f EXCEPT !.records = Append(@, r)], err |-> NoError]

AddRecord(r) ==
    /\ file.impl = "HexFile"
    /\ Len(AddRecordTo(file, r).file.records) <= MaxFileLen
    /\ file' = AddRecordTo(file, r).file
    /\ trav' = Call("AddRecord", r, FALSE, AddRecordTo(file, r).err,
                    file.records, <<>>,
                    IF AddRecordTo(file, r).err = NoError
                    THEN AfterAppend(trav.hist) ELSE trav.hist)
    /\ UNCHANGED <<fwVars, cdVars>>

\* HexFile.ReadFrom on the lines of the stream from line i: the records
\* parsed and the error; ReadFrom ends with me.Reset()
RECURSIVE ReadFromLoop(_, _, _, _, _)
ReadFromLoop(lines, i, ft, records, lineNumber) ==
    IF i > Len(lines)
    THEN IF Len(records) = 0 \/ records[Len(records)].Type # RecordEOF
         THEN [records |-> <<>>,
               err |-> ErrorString(
                         "Error: No EOF record type parsed before EOF")]
         ELSE [records |-> records, err |-> NoError]
    ELSE LET record == ReadLineResult(lines[i], FALSE)
         IN IF record.err # "nil"
            THEN [records |-> <<>>, err |-> LineError(lineNumber, record.err)]
            ELSE IF Len(records) > 0
                      /\ records[Len(records)].Type = RecordEOF
            THEN [records |-> <<>>,
                  err |-> LineError(lineNumber,
                                    "Record parsed after EOF record")]
            ELSE IF ~validateHEXRecord(record, ft)
            THEN [records |-> <<>>,
                  err |-> LineError(lineNumber, "Invalid Record Type")]
            ELSE ReadFromLoop(lines, i + 1, ft,
                     Append(records, Record(record.Type, record.AddressOffset,
                                            record.Data)),
                     NextLine(lineNumber))

\* a ReadFrom that assigns me.records and resets before it returns an error
ReadFromAssignsFirst(f, lines) ==
    LET res == ReadFromLoop(lines, 1, f.Type, <<>>, 1)
    IN [file |-> [f EXCEPT !.records = res.records, !.recordIndex = -1],
        err |-> res.err]

\* HexFile.ReadFrom: the container and the error it returns; the records
\* are assigned, and Reset is called, after the last of the error returns
ReadFromOf(f, lines) ==
    LET res == ReadFromLoop(lines, 1, f.Type, <<>>, 1)
    IN IF res.err # NoError
       THEN [file |-> f, err |-> res.err]
       ELSE [file |-> [f EXCEPT !.records = res.records, !.recordIndex = -1],
             err |-> NoError]

ReadFrom(lines) ==
    /\ file.impl = "HexFile"
    /\ Len(file.records) + Len(lines) <= MaxFileLen
    /\ file' = ReadFromOf(file, lines).file
    /\ trav' = Call("ReadFrom", EmptyRecord, FALSE,
                    ReadFromOf(file, lines).err, file.records, lines,
                    IF ReadFromOf(file, lines).err # NoError THEN trav.hist
                    ELSE History("Reset", CursorState(trav.hist)))
    /\ UNCHANGED <<fwVars, cdVars>>

\* ------------------------------------------------ the earlier I8HEX reader
\* the I8HEX that NewI8HEX starts from
EmptyI8HEX ==
    [impl |-> "I8HEX", Type |-> I8HEX, records |-> <<>>, recordIndex |-> 0]

\* I8HEX.NextRecord: the container and the record it returns, nil or not
NextRecordOf(f) ==
    IF f.recordIndex >= Len(f.records)
    THEN [file |-> f, rec |-> NilRecord, ok |-> FALSE]
    ELSE [file |-> [f EXCEPT !.recordIndex = @ + 1],
          rec |-> f.records[f.recordIndex + 1], ok |-> TRUE]

NextRecord ==
    /\ file.impl = "I8HEX"
    /\ CanRead
    /\ file' = NextRecordOf(file).file
    /\ trav' = Call("NextRecord", NextRecordOf(file).rec,
                    NextRecordOf(file).ok, NoError, file.records, <<>>,
                    AfterRead(trav.hist, NextRecordOf(file).rec,
                              NextRecordOf(file).ok))
    /\ UNCHANGED <<fwVars, cdVars>>

\* I8HEX.Reset
I8HEXReset ==
    /\ file.impl = "I8HEX"
    /\ file' = [file EXCEPT !.recordIndex = 0]
    /\ trav' = Call("Reset", EmptyRecord, FALSE, NoError, file.records, <<>>,
                    History("Reset", CursorState(trav.hist)))
    /\ UNCHANGED <<fwVars, cdVars>>

\* I8HEX.AddRecord
I8HEXAddRecord(r) ==
    /\ file.impl = "I8HEX"
    /\ Len(file.records) < MaxFileLen
    /\ file' = [file EXCEPT !.records = Append(@, r)]
    /\ trav' = Call("AddRecord", r, FALSE, NoError, file.records, <<>>,
                    AfterAppend(trav.hist))
    /\ UNCHANGED <<fwVars, cdVars>>

\* NewI8HEX on the lines of the stream from line i: the records parsed and
\* the error
RECURSIVE NewI8HEXLoop(_, _, _, _)
NewI8HEXLoop(lines, i, records, lineNumber) ==
    IF i > Len(lines) THEN [records |-> records, err |-> NoError]
    ELSE LET record == ReadLineResult(lines[i], TRUE)
         IN IF record.err # "nil"
            THEN [records |-> <<>>, err |-> LineError(lineNumber, record.err)]
            ELSE IF record.Type # RecordData /\ record.Type # RecordEOF
            THEN [records |-> <<>>,
                  err |-> LineError(lineNumber, "Invalid Record Type")]
            ELSE NewI8HEXLoop(lines, i + 1,
                     Append(records, Record(record.Type, record.AddressOffset,
                                            record.Data)),
                     NextLine(lineNumber))

\* NewI8HEX: the I8HEX it returns replaces the one at hand; with an error
\* it returns none
NewI8HEX(lines) ==
    /\ file.impl = "I8HEX"
    /\ Len(file.records) + Len(lines) <= MaxFileLen
    /\ LET res == NewI8HEXLoop(lines, 1, <<>>, 1)
       IN IF res.err # NoError
          THEN /\ file' = file
               /\ trav' = Call("NewI8HEX", EmptyRecord, FALSE, res.err,
                               file.records, lines, trav.hist)
          ELSE /\ file' = [EmptyI8HEX EXCEPT !.records = res.records]
               /\ trav' = Call("NewI8HEX", EmptyRecord, FALSE, NoError,
                               file.records, lines,
                               NewHistory)
    /\ UNCHANGED <<fwVars, cdVars>>

\* -------------------------------------------------------------------- Init
Batches == UNION {[1..n -> FileRecords] : n \in 0..MaxBatch}

InitFile ==
    /\ FileWriterIdle
    /\ CodecIdle
    /\ \/ \E ft \in FileTypes : file = NewHEXFile(ft)
       \/ \E ft \in FileTypes \cup {NoFileType} : file = NewHexFile(ft)
       \/ file = EmptyI8HEX
    /\ trav = Call("new", EmptyRecord, FALSE, NoError, <<>>, <<>>, NewHistory)

NextFile ==
    \/ ReadNext
    \/ Reset
    \/ \E r \in FileRecords : Add(r)
    \/ \E rs \in Batches : AddRecords(rs)
    \/ HexFileNext
    \/ HexFileReset
    \/ \E r \in FileRecords : AddRecord(r)
    \/ \E lines \in Streams : ReadFrom(lines)
    \/ NextRecord
    \/ I8HEXReset
    \/ \E r \in FileRecords : I8HEXAddRecord(r)
    \/ \E lines \in Streams : NewI8HEX(lines)

SpecFile == InitFile /\ [][NextFile]_vars

\* ------------------------------------------------------------------ claims
\* the calls that append one record, and the kinds legal for a file type
IsAppend == trav.op \in {"Add", "AddRecord"}
HasEOF(records) == \E i \in 1..Len(records) : records[i].Type = RecordEOF

\* C15: appending, by Add or AddRecord, a record whose kind is not legal
\* for the file type of the container fails with an error that reports the
\* kind of the record and the file type, and leaves the records of the
\* container unchanged.
C15_IllegalKindRejected ==
    (/\ IsAppend
     /\ file.impl \in {"HEXFile", "HexFile"}
     /\ ~LegalKind(trav.rec.Type, file.Type))
        => /\ trav.err.type = "InvalidRecordTypeError"
           /\ trav.err.InvalidRecordType = trav.rec.Type
           /\ trav.err.InvaildFileType = file.Type
           /\ file.records = trav.before

\* C16: once an EndOfFile record is in the container, every further append
\* of any record fails with the error of a second terminator and leaves
\* the records unchanged.
C16_NoAppendAfterEOF ==
    (/\ IsAppend
     /\ file.impl \in {"HEXFile", "HexFile"}
     /\ HasEOF(trav.before))
        => /\ trav.err
                = ErrorString(
                    "Cannot add records after EOF record has been added")
           /\ file.records = trav.before

\* C17: in every reachable state of a container the records hold at most
\* one EndOfFile record, and if they hold one it is the last record.
C17_EOFOnlyLast ==
    file.impl \in {"HEXFile", "HexFile"} =>
        \A i \in 1..Len(file.records) :
            file.records[i].Type = RecordEOF => i = Len(file.records)

\* C18: from a freshly created or Reset container that holds n records,
\* successive reads (ReadNext; Next with Record) return the records in the
\* order they were appended, each once, with flag true; the (n+1)-th read
\* returns an empty record with flag false, and so does every read after it.
C18_TraversalInOrder ==
    (file.impl \in {"HEXFile", "HexFile"} /\ trav.hist.clean) =>
        \A i \in 1..Len(trav.hist.seen) :
            IF i <= Len(file.records)
            THEN trav.hist.seen[i] = [rec |-> file.records[i], ok |-> TRUE]
            ELSE /\ ~trav.hist.seen[i].ok
                 /\ trav.hist.seen[i].rec \in {EmptyRecord, NilRecord}

\* a container of two records was read to its end and twice more
C18_Witness ==
    /\ file.impl = "HEXFile"
    /\ trav.op = "ReadNext"
    /\ trav.hist.clean
    /\ Len(file.records) = 2
    /\ file.records[1] # file.records[2]
    /\ Len(trav.hist.seen) = 4
    /\ ~trav.ok

\* a read of the container, whichever it is
ReadOf(f) ==
    IF f.impl = "HEXFile" THEN ReadNextOf(f)
    ELSE IF f.impl = "HexFile" THEN NextOf(f)
    ELSE NextRecordOf(f)

\* the records and flags of k successive reads of the container
RECURSIVE Traversal(_, _)
Traversal(f, k) ==
    IF k = 0 THEN <<>>
    ELSE <<[rec |-> ReadOf(f).rec, ok |-> ReadOf(f).ok]>>
           \o Traversal(ReadOf(f).file, k - 1)

\* the container as its constructor leaves the cursor, with these records
Fresh(f) ==
    IF f.impl = "HEXFile" THEN [NewHEXFile(f.Type) EXCEPT !.records = f.records]
    ELSE IF f.impl = "HexFile"
    THEN [NewHexFile(f.Type) EXCEPT !.records = f.records]
    ELSE [EmptyI8HEX EXCEPT !.records = f.records]

\* C19: Reset, called with the cursor before the start, on a record or past
\* the end, puts the cursor before the first record: the reads that follow
\* return the same records and flags, from the first record, as the reads
\* of a freshly created container with the same records.
C19_ResetRestarts ==
    (trav.hist.from = "Reset" /\ trav.hist.clean) =>
        /\ trav.hist.seen = Traversal(Fresh(file), Len(trav.hist.seen))
        /\ trav.op = "Reset" => file.recordIndex = Fresh(file).recordIndex

\* Reset was called past the end of two records or more, and the reads
\* after it went past the end again
C19_Witness ==
    /\ trav.hist.from = "Reset"
    /\ trav.hist.at = "exhausted"
    /\ trav.hist.clean
    /\ Len(file.records) >= 2
    /\ file.records[1] # file.records[2]
    /\ Len(trav.hist.seen) > Len(file.records)

\* the kinds of the records on the lines of a stream, -1 for a line that
\* is no record
KindsOf(lines) ==
    [i \in 1..Len(lines) |-> ReadLineResult(lines[i], FALSE).Type]

\* the stream ends with an EndOfFile record and holds no other
EndsWithOnlyEOF(lines) ==
    /\ Len(lines) > 0
    /\ \A i \in 1..Len(lines) :
          KindsOf(lines)[i] = RecordEOF <=> i = Len(lines)

\* every line of the stream is a record legal for the file type, and none
\* is an EndOfFile record
RecordsWithoutEOF(lines, ft) ==
    \A i \in 1..Len(lines) :
        /\ KindsOf(lines)[i] # RecordEOF
        /\ LegalKind(KindsOf(lines)[i], ft)

MissingTerminator(err) ==
    err = ErrorString("Error: No EOF record type parsed before EOF")

\* C20: decoding a stream, by ReadFrom or NewI8HEX, succeeds only if the
\* stream holds an EndOfFile record and no record follows it: a stream
\* that ends without an EndOfFile record fails with the error of a missing
\* terminator, and a record after an EndOfFile record fails with an error.
C20_DecodeNeedsTerminator ==
    trav.op \in {"ReadFrom", "NewI8HEX"} =>
        /\ trav.err = NoError => EndsWithOnlyEOF(trav.stream)
        /\ RecordsWithoutEOF(trav.stream, file.Type)
             => MissingTerminator(trav.err)

\* the decoding failed on a line
FailedOnLine == trav.op \in {"ReadFrom", "NewI8HEX"}
                  /\ trav.err # NoError /\ trav.err.msg = "Error on line"

\* line n of the stream is where the decoding fails: the lines before it
\* are records that the decoder takes, and line n is no record, or a
\* record of a kind the decoder refuses, or a record after EndOfFile
FailsAt(lines, n, strict, legal(_)) ==
    /\ n \in 1..Len(lines)
    /\ \A j \in 1..(n - 1) :
          /\ ReadLineResult(lines[j], strict).err = "nil"
          /\ legal(KindsOf(lines)[j])
          /\ strict \/ j = n - 1 \/ KindsOf(lines)[j] # RecordEOF
    /\ \/ ReadLineResult(lines[n], strict).err # "nil"
       \/ ~legal(KindsOf(lines)[n])
       \/ ~strict /\ n > 1 /\ KindsOf(lines)[n - 1] = RecordEOF

DataChars(line) == Len(line) - 11
ByteCountField(line) == 16 * hexVal(line[2]) + hexVal(line[3])
Rejected(res) == res.err # "nil" /\ res.err \notin Panics

\* C22: a line is rejected with an error whenever the number of pairs of
\* hex digits between the kind field and the checksum differs from the
\* byte count field, lines with one character more or less included; no
\* such line is taken with its data cut or filled up.
C22_ByteCountMismatch ==
    (/\ codec.pc = "decodeLine"
     /\ Len(codec.line) >= 11
     /\ hexVal(codec.line[2]) >= 0 /\ hexVal(codec.line[3]) >= 0
     /\ DataChars(codec.line) # 2 * ByteCountField(codec.line))
        => Rejected(codec.read) /\ Rejected(codec.readRecord)

\* a line of hex digits with one digit more than its byte count says was
\* read: the byte count test lets it through and hex.Decode refuses it
C22_Witness ==
    /\ codec.pc = "decodeLine"
    /\ codec.from = "tamper"
    /\ Len(codec.line) >= 11
    /\ DataChars(codec.line) = 2 * ByteCountField(codec.line) + 1
    /\ codec.line[1] = 58
    /\ \A i \in 2..Len(codec.line) : hexVal(codec.line[i]) >= 0
    /\ codec.read.err = "record data"
    /\ codec.readRecord.err = "record data"

\* C23: a line shorter than the 11 characters of a minimal record, the
\* empty line included, is answered with a parse error; and every line is
\* answered with a record or with an error, never with an access out of
\* range or a crash.
C23_ShortLineIsError ==
    codec.pc = "decodeLine" =>
        /\ codec.read.err \notin Panics
        /\ codec.readRecord.err \notin Panics
        /\ Len(codec.line) < 11 =>
             codec.read.err # "nil" /\ codec.readRecord.err # "nil"

\* the containers with a cursor index that starts at -1
IndexedFiles == {"HEXFile", "HexFile"}

\* C27: the cursor of a container moves backward only by Reset: over
\* ReadNext, Next and the appends the cursor index never decreases, and it
\* is always within -1 .. len(records).
C27_CursorForward ==
    /\ [](file.impl \in IndexedFiles
            => /\ file.recordIndex >= -1
               /\ file.recordIndex <= Len(file.records))
    /\ [][ (file.impl \in IndexedFiles
             /\ trav'.op \in {"ReadNext", "Next", "Add", "AddRecords",
                              "AddRecord"})
           => file'.recordIndex >= file.recordIndex ]_vars

\* the step is an append, by Add, AddRecords or AddRecord
AppendStep ==
    /\ file.impl \in IndexedFiles
    /\ trav'.op \in {"Add", "AddRecords", "AddRecord"}

IsPrefix(s, t) == Len(s) <= Len(t) /\ SubSeq(t, 1, Len(s)) = s

\* C28: an append, by Add, AddRecords or AddRecord, leaves the cursor index
\* as it is whether it succeeds or fails; one that succeeds changes the
\* records only, by putting the record at the end of them.
C28_AppendKeepsCursor ==
    [][ AppendStep
        => /\ file'.recordIndex = file.recordIndex
           /\ file'.Type = file.Type
           /\ file'.impl = file.impl
           /\ trav'.err = NoError
                => /\ IsPrefix(file.records, file'.records)
                   /\ trav'.op # "AddRecords"
                        => file'.records = Append(file.records, trav'.rec)
      ]_vars

\* a record was appended behind the record the cursor is on
C28_Witness ==
    /\ file.impl \in IndexedFiles
    /\ trav.op \in {"Add", "AddRecord"} /\ trav.err = NoError
    /\ file.recordIndex = 0
    /\ Len(trav.before) = 1
    /\ file.records = Append(trav.before, trav.rec)

====
